---- MODULE Spec2Model ----
(***************************************************************************)
(* HellioHR e-mail agent: the per-message pipeline (classify, conditional  *)
(* ingest, conditional draft, notify, commit) of agent/agent.py and of     *)
(* agent/agent_strands.py, the classifier of agent/tools/classification.py *)
(* and the collaborators the pipeline drives (Gmail tools, backend API).   *)
(*                                                                         *)
(* Python strings are sequences of tokens (a token is a run of characters  *)
(* the code never looks inside); Python dicts are functions whose DOMAIN   *)
(* is the key set, so that a missing key is a missing key here too.        *)
(***************************************************************************)
EXTENDS Integers, Sequences, FiniteSets, TLC

VARIABLES
    variant,        \* "agent" (agent.py) or "strands" (agent_strands.py)
    emails,         \* the mailbox: message id -> e-mail dict
    labels,         \* message ids carrying GMAIL_PROCESSED_LABEL
    candidates,     \* backend: candidate records, in creation order
    documents,      \* backend: uploaded documents, in upload order
    positions,      \* backend: created positions
    notifications,  \* backend: created notifications (their metadata)
    downloads,      \* mailbox: <<message, attachment>> pairs ever downloaded
    lpc,            \* position of the polling loop
    iteration,      \* agent_main_loop / run_agent_continuous iteration
    batch,          \* message ids of the current poll, in fetch order
    idx,            \* 1-based index of the current message in batch
    processed_count,
    failed_count,
    pc,             \* position inside the per-message pipeline
    cls,            \* classification of the current message
    out,            \* ids produced so far for the current message
    calls,          \* collaborator calls of the current message in this run
    attempted,      \* message ids whose processing began in the current poll
    poll_result,    \* how the current poll began: unhealthy, fetch_error, fetched
    sleeps,         \* time.sleep calls made by the loop so far
    auth_failed_at, \* batch index at which authenticate() failed in this poll
    interrupted_at, \* iteration in which a KeyboardInterrupt was delivered, or 0
    c_email,        \* classifier harness: the e-mail under classification
    c_result,       \* classifier harness: what the classifier returned
    f_max,          \* fetch harness: the configured per-poll maximum
    f_listed,       \* fetch harness: the messages the mailbox answered with
    f_batch,        \* fetch harness: the messages handed to the pipeline
    t_request,      \* template server: the fill_template call and its files
    t_response,     \* template server: what fill_template returned
    token,          \* BackendAPI.token (NoToken: None)
    token_expiry,   \* BackendAPI.token_expiry (NoExpiry: None)
    now,            \* datetime.now(), in hours
    logins,         \* tokens the backend has issued to this client
    a_request       \* backend client: the latest authenticated request

pipeVars == <<variant, emails, labels, candidates, documents, positions,
              notifications, downloads, lpc, iteration, batch, idx,
              processed_count, failed_count, pc, cls, out, calls,
              attempted, poll_result, sleeps, auth_failed_at, interrupted_at>>
clsVars == <<c_email, c_result>>
fetchVars == <<f_max, f_listed, f_batch>>
fillVars == <<t_request, t_response>>
authVars == <<token, token_expiry, now, logins, a_request>>
vars == <<variant, emails, labels, candidates, documents, positions,
          notifications, downloads, lpc, iteration, batch, idx,
          processed_count, failed_count, pc, cls, out, calls,
          attempted, poll_result, sleeps, auth_failed_at, interrupted_at,
          c_email, c_result, f_max, f_listed, f_batch, t_request, t_response,
          token, token_expiry, now, logins, a_request>>

----------------------------------------------------------------------------
(* Bounds of the model *)

\* most attachments a generated message carries
MaxAttachments == 3

\* messages in the mailbox
NumMsgs == 2

\* largest per-poll maximum the fetch harness is configured with
MaxConfigured == 12

\* most messages the mailbox answers one list request with in the fetch harness
MaxListed == 12

\* field names a template's metadata is drawn from
MaxFields == 3

\* hours the clock of the backend client harness runs for
MaxClock == 30

\* logins the backend client harness makes
MaxLogins == 4

\* messages in the mailbox of the harness with healthy collaborators
MaxMailbox == 3

\* polls the loop of that harness makes
MaxPolls == 4

----------------------------------------------------------------------------
(* Configuration (environment variables; the values of this run) *)

MAX_EMAILS_PER_POLL == 2

MAX_ITERATIONS == 2

\* fetch_unprocessed_emails: max_results = min(max_results, 10)
FetchSafetyLimit == 10

----------------------------------------------------------------------------
(* Python values *)

\* Python's None where a string is expected
PyNone == <<"#None">>

\* a missing id (candidate_id = None, document_id = None ...)
NoId == 0

Range(s) == {s[i] : i \in 1..Len(s)}

\* str.lower() on one token
LowerTok(t) ==
    CASE t = "HR" -> "hr"
      [] t = "OPS" -> "ops"
      [] t = "JANE" -> "jane"
      [] t = "+CANDIDATES@" -> "+candidates@"
      [] t = "+Candidates@" -> "+candidates@"
      [] t = "+POSITIONS@" -> "+positions@"
      [] t = "CANDIDATES@" -> "candidates@"
      [] t = "CO.COM" -> "co.com"
      [] t = "X.COM" -> "x.com"
      [] t = "Jane Doe" -> "jane doe"
      [] t = "New Position:" -> "new position:"
      [] t = "Job Opening:" -> "job opening:"
      [] t = "Position:" -> "position:"
      [] t = "Role:" -> "role:"
      [] t = "Hiring:" -> "hiring:"
      [] t = "Backend Dev" -> "backend dev"
      [] OTHER -> t

\* str.lower()
Lower(s) == [i \in 1..Len(s) |-> LowerTok(s[i])]

IsSpace(t) == t = " "

RECURSIVE LStrip(_)
LStrip(s) == IF s # <<>> /\ IsSpace(Head(s)) THEN LStrip(Tail(s)) ELSE s

RECURSIVE RStrip(_)
RStrip(s) ==
    IF s # <<>> /\ IsSpace(s[Len(s)]) THEN RStrip(SubSeq(s, 1, Len(s) - 1)) ELSE s

\* str.strip()
Strip(s) == RStrip(LStrip(s))

\* str.index(t): 0-based position of the first occurrence
Index(s, t) == (CHOOSE i \in 1..Len(s) : s[i] = t /\ \A j \in 1..(i - 1) : s[j] # t) - 1

\* s[a:b] with 0-based a, b
Slice(s, a, b) == SubSeq(s, a + 1, b)

----------------------------------------------------------------------------
(* gmail_tools.py helpers *)

\* `'<' in None` raises TypeError
ParseRaises(email_field) == email_field = PyNone

parse_email_address(email_field) ==
    IF "<" \in Range(email_field) /\ ">" \in Range(email_field)
    THEN Lower(Strip(Slice(email_field, Index(email_field, "<") + 1,
                           Index(email_field, ">"))))
    ELSE Lower(Strip(email_field))

extract_name_from_email(email_field) ==
    IF "<" \in Range(email_field)
    THEN LET name == Strip(Slice(email_field, 0, Index(email_field, "<")))
         IN  IF name # <<>> THEN name ELSE parse_email_address(email_field)
    ELSE parse_email_address(email_field)

----------------------------------------------------------------------------
(* tools/classification.py *)

Contains(s, t) == t \in Range(s)

\* email.get('to', '') is used as a string: a None recipient raises TypeError
\* inside parse_email_address
ClassifyRaises(email) == ParseRaises(email["to"])

\* a slip that also reads the subject line
classify_email_by_subject(email) ==
    LET to_address == parse_email_address(email["to"])
    IN  IF Contains(to_address, "+candidates@")
           \/ to_address = <<"candidates@", "develeap.com">>
        THEN <<"CANDIDATE_APPLICATION", <<"deterministic", ": +candidates address">>>>
        ELSE IF Contains(to_address, "+positions@")
                \/ to_address = <<"positions@", "develeap.com">>
                \/ Contains(Lower(email["subject"]), "new position:")
        THEN <<"POSITION_ANNOUNCEMENT", <<"deterministic", ": +positions address">>>>
        ELSE <<"OTHER", <<"deterministic", ": no routing pattern matched">>>>

classify_email_deterministic(email) ==
    LET to_address == parse_email_address(email["to"])
    IN  IF Contains(to_address, "+candidates@")
           \/ to_address = <<"candidates@", "develeap.com">>
        THEN <<"CANDIDATE_APPLICATION", <<"deterministic", ": +candidates address">>>>
        ELSE IF Contains(to_address, "+positions@")
                \/ to_address = <<"positions@", "develeap.com">>
        THEN <<"POSITION_ANNOUNCEMENT", <<"deterministic", ": +positions address">>>>
        ELSE <<"OTHER", <<"deterministic", ": no routing pattern matched">>>>

\* the placeholder body: the supplied function is never called
classify_email_with_llm(email) ==
    LET email_type == "OTHER"
    IN  <<email_type, <<"llm", ": classified as ", email_type>>>>

extracted_info_of(email) ==
    [sender |-> email["from"],
     subject |-> email["subject"],
     to |-> email["to"],
     received_at |-> email["date"],
     attachment_count |-> Len(email["attachments"]),
     has_body |-> Strip(email["body"]) # <<>>]

\* calls of llm_classify_fn inside classify_email_with_llm: the call is
\* commented out
FallbackModelCalls == 0

\* a slip that asks the model whenever one is supplied
UsesLlmWheneverSupplied(email, llm) == llm

\* `if email_type == "OTHER" and llm_classify_fn is not None`
\* (llm: whether llm_classify_fn is not None)
UsesLlmFallback(email, llm) == classify_email_deterministic(email)[1] = "OTHER" /\ llm

\* how often classify_email calls llm_classify_fn
model_calls(email, llm) == IF UsesLlmFallback(email, llm) THEN FallbackModelCalls ELSE 0

classify_email(email, llm) ==
    LET det == classify_email_deterministic(email)
        res == IF UsesLlmFallback(email, llm) THEN classify_email_with_llm(email) ELSE det
    IN  [type |-> res[1], method |-> res[2], extracted_info |-> extracted_info_of(email)]

\* agent_strands.py: the classify_email_type tool
classify_email_type(email_data) ==
    IF ClassifyRaises(email_data)
    THEN [type |-> "OTHER", method |-> <<"error">>, confidence |-> "low",
          error |-> <<"TypeError">>]
    ELSE LET r == classify_email(email_data, FALSE)
             confidence == IF r.method = <<"deterministic">> THEN "high" ELSE "medium"
         IN  [type |-> r.type, method |-> r.method, confidence |-> confidence,
              extracted_info |-> r.extracted_info]

----------------------------------------------------------------------------
(* Messages *)

ToAddrs ==
    { <<"hr", "+candidates@", "co.com">>,
      <<"jane", "+candidates@", "co.com">>,
      <<"HR Team", " ", "<", "HR", "+CANDIDATES@", "CO.COM", ">">>,
      <<"candidates@", "develeap.com">>,
      <<"ops", "+positions@", "co.com">>,
      <<" ", "OPS", "+POSITIONS@", "co.com", " ">>,
      <<"positions@", "develeap.com">>,
      <<"random", "@", "co.com">>,
      <<"hr", "@", "co.com">>,
      <<>>,
      PyNone }

FromAddrs ==
    { <<"Jane Doe", " ", "<", "jane", "@", "x.com", ">">>,
      <<"JANE", "@", "X.COM">>,
      <<"ops", "@", "co.com">> }

Subjects ==
    { <<"New Position:", " ", "Backend Dev">>,
      <<"Application">>,
      <<>> }

Bodies == { <<"text">>, <<" ">>, <<>> }

Attachments(n) == [i \in 1..n |-> i - 1]

Email(id, to, from, subject, body, n) ==
    [id |-> id, to |-> to, from |-> from, subject |-> subject, body |-> body,
     date |-> <<"2026-02-08">>, attachments |-> Attachments(n)]

ClassifierInputs ==
    { Email(1, to, from, subject, body, n) :
        to \in ToAddrs, from \in FromAddrs, subject \in Subjects, body \in Bodies,
        n \in 0..MaxAttachments }


\* the messages the pipeline runs on: one per routing outcome, and a message
\* whose recipient header is unusable
MsgKinds == {"cand", "pos", "other", "bad"}

KindTo(kind) ==
    CASE kind = "cand" -> <<"HR Team", " ", "<", "HR", "+CANDIDATES@", "CO.COM", ">">>
      [] kind = "pos" -> <<"ops", "+positions@", "co.com">>
      [] kind = "other" -> <<"random", "@", "co.com">>
      [] kind = "bad" -> PyNone

\* the same sender writes her address in two ways
PipelineEmail(id, kind, n) ==
    Email(id, KindTo(kind),
          IF kind = "pos" THEN <<"ops", "@", "co.com">>
          ELSE IF n > 1 THEN <<"JANE", "@", "X.COM">>
          ELSE <<"Jane Doe", " ", "<", "jane", "@", "x.com", ">">>,
          IF kind = "pos" THEN <<"New Position:", " ", "Backend Dev">> ELSE <<"Application">>,
          <<"text">>, n)

\* <<kind, number of attachments>>
MsgShapes ==
    { <<"cand", 0>>, <<"cand", 1>>, <<"cand", MaxAttachments>>,
      <<"pos", 0>>, <<"other", 1>>, <<"bad", 0>> }

Mailboxes == [1..NumMsgs -> { PipelineEmail(0, sh[1], sh[2]) : sh \in MsgShapes }]

----------------------------------------------------------------------------
(* The pipeline: state *)

MsgIds == 1..NumMsgs

NoClassification == [type |-> "NONE"]

NoOutcome ==
    [candidate_id |-> NoId, document_id |-> NoId, position_id |-> NoId,
     draft_id |-> NoId, notification_id |-> NoId, result |-> "running"]

Call(op, ok) == [op |-> op, ok |-> ok]
AttCall(op, ok, att) == [op |-> op, ok |-> ok, att |-> att]

CurId == batch[idx]
Cur == emails[CurId]

InItem(step) == lpc = "item" /\ pc = step

IdleClassifier == c_email = NoClassification /\ c_result = NoClassification

\* f_batch before the harness has run (message ids are positive)
NoBatch == <<0>>

IdleFetch == f_max = 0 /\ f_listed = <<>> /\ f_batch = NoBatch

NoRequest == [template_id |-> "none"]

NoResponse == [done |-> FALSE]

IdleFill == t_request = NoRequest /\ t_response = NoResponse

\* self.token = None
NoToken == 0

\* self.token_expiry = None
NoExpiry == 0

NoAuthRequest == [done |-> FALSE]

\* BackendAPI.__init__: no token, no expiry
IdleAuth ==
    /\ token = NoToken
    /\ token_expiry = NoExpiry
    /\ now = 0
    /\ logins = 0
    /\ a_request = NoAuthRequest

InitPipeline ==
    /\ variant \in {"agent", "strands"}
    /\ \E m \in Mailboxes : emails = [i \in MsgIds |-> [m[i] EXCEPT !["id"] = i]]
    /\ labels = {}
    /\ candidates = <<>>
    /\ documents = <<>>
    /\ positions = <<>>
    /\ notifications = <<>>
    /\ downloads = {}
    /\ lpc = "start"
    /\ iteration = 0
    /\ batch = <<>>
    /\ idx = 0
    /\ processed_count = 0
    /\ failed_count = 0
    /\ pc = "idle"
    /\ cls = NoClassification
    /\ out = NoOutcome
    /\ calls = <<>>
    /\ attempted = <<>>
    /\ poll_result = "none"
    /\ sleeps = 0
    /\ auth_failed_at = 0
    /\ interrupted_at = 0

Init == InitPipeline /\ IdleClassifier /\ IdleFetch /\ IdleFill /\ IdleAuth


----------------------------------------------------------------------------
(* The pipeline: control flow of process_single_email (agent.py) and of   *)
(* the per-e-mail body of run_agent_once (agent_strands.py)               *)

\* a slip that takes attachments[-1]
LastAttachment(attachments) == attachments[Len(attachments)]

\* attachments[0]
FirstAttachment(attachments) == attachments[1]

\* a slip that treats a candidate application without attachment as a failure
AfterClassifyRequiringAttachment(v, email_type, attachments) ==
    IF email_type = "CANDIDATE_APPLICATION"
    THEN IF attachments # <<>>
         THEN (IF v = "agent" THEN "download" ELSE "candidate")
         ELSE "abort"
    ELSE IF email_type = "POSITION_ANNOUNCEMENT" /\ v = "strands"
    THEN "position"
    ELSE "notify"

\* a slip that drafts a reply to every message agent_strands.py classifies
AfterClassifyDraftingOther(v, email_type, attachments) ==
    IF email_type = "CANDIDATE_APPLICATION"
    THEN IF attachments # <<>>
         THEN (IF v = "agent" THEN "download" ELSE "candidate")
         ELSE (IF v = "agent" THEN "notify" ELSE "draft")
    ELSE IF email_type = "POSITION_ANNOUNCEMENT" /\ v = "strands"
    THEN "position"
    ELSE IF v = "strands" THEN "draft" ELSE "notify"

\* where the run goes once the message is classified
AfterClassify(v, email_type, attachments) ==
    IF email_type = "CANDIDATE_APPLICATION"
    THEN IF attachments # <<>>
         THEN (IF v = "agent" THEN "download" ELSE "candidate")
         ELSE (IF v = "agent" THEN "notify" ELSE "draft")
    ELSE IF email_type = "POSITION_ANNOUNCEMENT" /\ v = "strands"
    THEN "position"
    ELSE "notify"

\* agent.py: `if attachment_data: ... else: return False`;
\* agent_strands.py: `if attachment_data:` guards the upload only, and the tool
\* returns success either way
AfterDownload(v, ok) ==
    IF v = "agent"
    THEN (IF ok THEN "candidate" ELSE "abort")
    ELSE (IF ok THEN "upload" ELSE "draft")

\* a slip that swallows the BackendAPIError and goes on
AfterCandidateIgnoringFailure(v, ok) == IF v = "agent" THEN "upload" ELSE "download"

\* a BackendAPIError ends the item
AfterCandidate(v, ok) ==
    IF ~ok THEN "abort" ELSE IF v = "agent" THEN "upload" ELSE "download"

\* a slip that tries a failed upload again in the same run
AfterUploadRetrying(v, ok) ==
    IF ~ok THEN "upload" ELSE IF v = "agent" THEN "notify" ELSE "draft"

AfterUpload(v, ok) ==
    IF ~ok THEN "abort" ELSE IF v = "agent" THEN "notify" ELSE "draft"

AfterPosition(ok) == IF ok THEN "draft" ELSE "abort"

\* a slip that treats a failed draft like a failed ingest (`continue`)
AfterDraftFatal(ok) == IF ok THEN "notify" ELSE "abort"

\* "Don't fail the whole process if draft fails"
AfterDraft(ok) == "notify"

\* a slip that labels without looking at the notification
AfterNotifyUnchecked(ok) == "label"

\* agent.py: `if notification.get('id')`; agent_strands.py: `if notif_result.get('success')`
AfterNotify(ok) == IF ok THEN "label" ELSE "abort"

\* the return value of add_label is not looked at by either caller
AfterLabel(ok) == "ok"

\* the step reached, or the end of the item
Goto(step) ==
    IF step \in {"abort", "ok"}
    THEN /\ pc' = "done"
         /\ out' = [out EXCEPT !.result = step]
    ELSE /\ pc' = step
         /\ UNCHANGED out

GotoWith(step, o) ==
    IF step \in {"abort", "ok"}
    THEN /\ pc' = "done"
         /\ out' = [o EXCEPT !.result = step]
    ELSE /\ pc' = step
         /\ out' = o

loopVars == <<lpc, iteration, batch, idx, attempted, poll_result, sleeps, interrupted_at>>
backendVars == <<candidates, documents, positions, notifications>>
fixedVars == <<variant, emails, c_email, c_result, f_max, f_listed, f_batch,
               t_request, t_response, token, token_expiry, now, logins, a_request>>

\* Step 1: classify. agent.py calls classify_email inside the item's try block;
\* agent_strands.py calls the classify_email_type tool, which catches everything
Classify ==
    /\ InItem("classify")
    /\ IF variant = "agent"
       THEN IF ClassifyRaises(Cur)
            THEN /\ cls' = NoClassification
                 /\ Goto("abort")
            ELSE /\ cls' = classify_email(Cur, FALSE)
                 /\ Goto(AfterClassify(variant, cls'.type, Cur["attachments"]))
       ELSE /\ cls' = classify_email_type(Cur)
            /\ Goto(AfterClassify(variant, cls'.type, Cur["attachments"]))
    /\ UNCHANGED <<labels, downloads, calls, processed_count, failed_count, auth_failed_at>>
    /\ UNCHANGED <<loopVars, backendVars, fixedVars>>

\* gmail_tools.download_attachment: the bytes, or b"" on any error
Download ==
    /\ InItem("download")
    /\ \E ok \in BOOLEAN :
        LET att == FirstAttachment(Cur["attachments"])
        IN  /\ calls' = Append(calls, AttCall("download_attachment", ok, att))
            /\ downloads' = downloads \cup {<<CurId, att>>}
            /\ Goto(AfterDownload(variant, ok))
    /\ UNCHANGED <<labels, cls, processed_count, failed_count, auth_failed_at>>
    /\ UNCHANGED <<loopVars, backendVars, fixedVars>>


\* the id of the stored candidate whose email is `email`, or NoId
FindCandidate(cands, email) ==
    IF \E i \in 1..Len(cands) : cands[i].email = email
    THEN cands[CHOOSE i \in 1..Len(cands) :
                 cands[i].email = email /\ \A j \in 1..(i - 1) : cands[j].email # email].id
    ELSE NoId

\* a slip that posts a new candidate without looking for a stored one
create_candidate_always(cands, email, name) ==
    Append(cands, [id |-> Len(cands) + 1, email |-> email, name |-> name])

\* BackendAPI.create_or_get_candidate: GET the list, return the match, else POST
create_or_get_candidate(cands, email, name) ==
    IF FindCandidate(cands, email) # NoId
    THEN cands
    ELSE Append(cands, [id |-> Len(cands) + 1, email |-> email, name |-> name])

\* one backend request: whether the stored token is missing or past its expiry,
\* whether the login this triggers succeeds, whether the request is answered 2xx
Requests == [expired : BOOLEAN, login_ok : BOOLEAN, http_ok : BOOLEAN]

\* BackendAPI._get_headers: authenticate() once when the token is missing or
\* expired; a failed login raises BackendAPIError
AuthenticateFails(req) == req.expired /\ ~req.login_ok

\* the request returns instead of raising BackendAPIError
RequestOk(req) == ~AuthenticateFails(req) /\ req.http_ok

\* the batch index of the latest failed login of this poll
AuthFailedAt(req) == IF AuthenticateFails(req) THEN idx ELSE auth_failed_at

\* resolve-or-create the candidate keyed by the parsed sender address; a failed
\* request raises BackendAPIError
Candidate ==
    /\ InItem("candidate")
    /\ \E req \in Requests :
        LET ok == RequestOk(req)
            sender_email == parse_email_address(Cur["from"])
            sender_name == extract_name_from_email(Cur["from"])
            stored == create_or_get_candidate(candidates, sender_email, sender_name)
        IN  /\ calls' = Append(calls, Call("create_or_get_candidate", ok))
            /\ candidates' = IF ok THEN stored ELSE candidates
            /\ GotoWith(AfterCandidate(variant, ok),
                        IF ok
                        THEN [out EXCEPT !.candidate_id = FindCandidate(stored, sender_email)]
                        ELSE out)
            /\ auth_failed_at' = AuthFailedAt(req)
    /\ UNCHANGED <<labels, downloads, cls, processed_count, failed_count>>
    /\ UNCHANGED <<documents, positions, notifications>>
    /\ UNCHANGED <<loopVars, fixedVars>>

\* BackendAPI.upload_document of the downloaded bytes
Upload ==
    /\ InItem("upload")
    /\ \E req \in Requests :
        LET ok == RequestOk(req)
            att == FirstAttachment(Cur["attachments"])
            doc == [id |-> Len(documents) + 1, candidate_id |-> out.candidate_id,
                    email_id |-> CurId, att |-> att]
        IN  /\ calls' = Append(calls, AttCall("upload_document", ok, att))
            /\ documents' = IF ok THEN Append(documents, doc) ELSE documents
            /\ GotoWith(AfterUpload(variant, ok),
                        IF ok THEN [out EXCEPT !.document_id = doc.id] ELSE out)
            /\ auth_failed_at' = AuthFailedAt(req)
    /\ UNCHANGED <<labels, downloads, cls, processed_count, failed_count>>
    /\ UNCHANGED <<candidates, positions, notifications>>
    /\ UNCHANGED <<loopVars, fixedVars>>

\* BackendAPI defines no create_position: the call in
\* process_position_announcement raises AttributeError, which the tool turns
\* into success = False
CreatePositionOutcomes == {FALSE}

Position ==
    /\ InItem("position")
    /\ \E ok \in CreatePositionOutcomes :
        LET pos == [id |-> Len(positions) + 1, email_id |-> CurId]
        IN  /\ calls' = Append(calls, Call("create_position", ok))
            /\ positions' = IF ok THEN Append(positions, pos) ELSE positions
            /\ GotoWith(AfterPosition(ok),
                        IF ok THEN [out EXCEPT !.position_id = pos.id] ELSE out)
    /\ UNCHANGED <<labels, downloads, cls, processed_count, failed_count, auth_failed_at>>
    /\ UNCHANGED <<candidates, documents, notifications>>
    /\ UNCHANGED <<loopVars, fixedVars>>

\* gmail_tools.create_draft: the placeholder's return value
gmail_create_draft == [draft_id |-> <<"draft-placeholder">>, status |-> "created"]

\* create_draft_reply: `if draft_result.get('success')`
DraftReplySuccess(draft_result) ==
    "success" \in DOMAIN draft_result /\ draft_result["success"] = TRUE

\* create_draft_reply: render the template (None when the template is missing
\* or a variable is, or an exception), then ask the mailbox for a draft
Draft ==
    /\ InItem("draft")
    /\ \E rendered \in BOOLEAN :
        LET success == rendered /\ DraftReplySuccess(gmail_create_draft)
        IN  /\ calls' = IF rendered
                        THEN calls \o <<Call("render_template", TRUE),
                                        Call("create_draft", success)>>
                        ELSE Append(calls, Call("render_template", FALSE))
            /\ GotoWith(AfterDraft(success),
                        IF success THEN [out EXCEPT !.draft_id = 1] ELSE out)
    /\ UNCHANGED <<labels, downloads, cls, processed_count, failed_count, auth_failed_at>>
    /\ UNCHANGED <<loopVars, backendVars, fixedVars>>

\* the metadata dict handed to create_notification
NotificationMetadata(v, email, c, o) ==
    IF v = "agent"
    THEN [emailId |-> email["id"], type |-> c.type,
          sender |-> c.extracted_info.sender, subject |-> c.extracted_info.subject,
          attachmentCount |-> c.extracted_info.attachment_count,
          classificationMethod |-> c.method,
          candidateId |-> o.candidate_id, documentId |-> o.document_id]
    ELSE [emailId |-> email["id"], type |-> c.type, method |-> c.method,
          candidateId |-> o.candidate_id,
          positionId |-> o.position_id,
          draftId |-> o.draft_id]

\* BackendAPI.create_notification; a failure is a BackendAPIError or an answer
\* without an id
Notify ==
    /\ InItem("notify")
    /\ \E req \in Requests :
        LET ok == RequestOk(req)
            metadata == NotificationMetadata(variant, Cur, cls, out)
            nid == Len(notifications) + 1
        IN  /\ calls' = Append(calls, Call("create_notification", ok))
            /\ notifications' = IF ok THEN Append(notifications, metadata)
                                ELSE notifications
            /\ GotoWith(AfterNotify(ok),
                        IF ok THEN [out EXCEPT !.notification_id = nid] ELSE out)
            /\ auth_failed_at' = AuthFailedAt(req)
    /\ UNCHANGED <<labels, downloads, cls, processed_count, failed_count>>
    /\ UNCHANGED <<candidates, documents, positions>>
    /\ UNCHANGED <<loopVars, fixedVars>>

\* a slip that writes the label set of the mailbox instead of adding to it
add_label_replacing(labelled, email_id, ok) == IF ok THEN {email_id} ELSE labelled

\* gmail_tools.add_label: messages().modify(addLabelIds = [label_id]) on the one
\* message; nothing is written when an error comes first
add_label(labelled, email_id, ok) == IF ok THEN labelled \cup {email_id} ELSE labelled

\* gmail_tools.add_label: True when the label was added, False on any error
Label ==
    /\ InItem("label")
    /\ \E ok \in BOOLEAN :
        /\ calls' = Append(calls, Call("add_label", ok))
        /\ labels' = add_label(labels, CurId, ok)
        /\ Goto(AfterLabel(ok))
    /\ UNCHANGED <<downloads, cls, processed_count, failed_count, auth_failed_at>>
    /\ UNCHANGED <<loopVars, backendVars, fixedVars>>


----------------------------------------------------------------------------
(* The polling loop: agent_main_loop (agent.py), run_agent_continuous and  *)
(* run_agent_once (agent_strands.py)                                       *)

Min(a, b) == IF a < b THEN a ELSE b

\* a slip that also leaves out the messages that already have a notification
EligibleUnnotified(labelled) ==
    {m \in DOMAIN emails : m \notin labelled
                    /\ \A n \in 1..Len(notifications) : notifications[n].emailId # m}

\* the messages matching "label:hellio/inbox -label:hellio/processed"
Eligible(labelled) == {m \in DOMAIN emails : m \notin labelled}

RECURSIVE SortedSeq(_)
SortedSeq(S) ==
    IF S = {} THEN <<>>
    ELSE LET m == CHOOSE x \in S : \A y \in S : x <= y
         IN  <<m>> \o SortedSeq(S \ {m})

\* emails[:n]
Take(seq, n) == SubSeq(seq, 1, Min(n, Len(seq)))

\* users().messages().list(q, maxResults): the matching messages, cut at
\* maxResults when the mailbox honours the limit it was given
gmail_list(labelled, max_results, honoured) ==
    IF honoured THEN Take(SortedSeq(Eligible(labelled)), max_results)
    ELSE SortedSeq(Eligible(labelled))

\* gmail_tools.fetch_emails: every listed message, or [] on any error
fetch_emails(labelled, max_results, ok, honoured) ==
    IF ok THEN gmail_list(labelled, max_results, honoured) ELSE <<>>

\* the limit a poll asks the mailbox for
requested_max(v, configured) ==
    IF v = "agent" THEN configured ELSE Min(configured, FetchSafetyLimit)

\* a slip that hands over whatever the mailbox answered
poll_batch_unsliced(v, configured, fetched) == fetched

\* agent.py: emails[:MAX_EMAILS_PER_POLL];
\* agent_strands.py: max_results = min(max_results, 10); emails[:max_results]
poll_batch(v, configured, fetched) ==
    Take(fetched, requested_max(v, configured))

\* the batch one poll hands to the pipeline
PollBatch(v, labelled, ok, honoured) ==
    poll_batch(v, MAX_EMAILS_PER_POLL,
               fetch_emails(labelled, requested_max(v, MAX_EMAILS_PER_POLL), ok, honoured))

itemVars == <<pc, cls, out, calls>>

\* agent.py checks the backend once before the loop and gives up when it is
\* down; agent_strands.py checks it inside every run_agent_once
Startup ==
    /\ lpc = "start"
    /\ \E healthy \in BOOLEAN :
        lpc' = IF variant = "agent" /\ ~healthy THEN "stopped" ELSE "poll"
    /\ UNCHANGED <<iteration, batch, idx, labels, downloads, processed_count, failed_count>>
    /\ UNCHANGED <<attempted, poll_result, sleeps, auth_failed_at, interrupted_at>>
    /\ UNCHANGED <<itemVars, backendVars, fixedVars>>

\* how a poll begins: agent_strands.py returns before the fetch when the
\* backend is down; fetch_emails answers [] on an error
PollResult(v, healthy, fetched) ==
    IF v = "strands" /\ ~healthy THEN "unhealthy"
    ELSE IF ~fetched THEN "fetch_error"
    ELSE "fetched"

\* a slip that leaves the loop when a poll brings nothing
AfterPollStopWhenEmpty(b) == IF b = <<>> THEN "stopped" ELSE "item"

\* `if not emails` / `if email_count == 0`: the iteration is over
AfterPoll(b) == IF b = <<>> THEN "sleep" ELSE "item"

\* one iteration begins: health check (agent_strands.py), fetch, truncate
Poll ==
    /\ lpc = "poll"
    /\ iteration < MAX_ITERATIONS
    /\ iteration' = iteration + 1
    /\ processed_count' = 0
    /\ failed_count' = 0
    /\ \E healthy \in BOOLEAN, fetched \in BOOLEAN, honoured \in BOOLEAN :
        LET result == PollResult(variant, healthy, fetched)
            b == IF result = "unhealthy" THEN <<>>
                 ELSE PollBatch(variant, labels, fetched, honoured)
        IN  /\ batch' = b
            /\ poll_result' = result
            /\ lpc' = AfterPoll(b)
            /\ IF b = <<>>
               THEN /\ idx' = 0
                    /\ pc' = "idle"
                    /\ attempted' = <<>>
               ELSE /\ idx' = 1
                    /\ pc' = "classify"
                    /\ attempted' = <<b[1]>>
    /\ cls' = NoClassification
    /\ out' = NoOutcome
    /\ calls' = <<>>
    /\ auth_failed_at' = 0
    /\ UNCHANGED <<labels, downloads, sleeps, interrupted_at>>
    /\ UNCHANGED <<backendVars, fixedVars>>

\* a slip that gives up the batch at the first message that failed
AfterItemStopOnFailure(result, i, n) == IF result = "ok" /\ i < n THEN "item" ELSE "sleep"

\* the for loop over the batch: the next message whatever the last one returned
AfterItem(result, i, n) == IF i < n THEN "item" ELSE "sleep"

\* the item returned: count it and take the next message of the batch
EndItem ==
    /\ InItem("done")
    /\ processed_count' = IF out.result = "ok" THEN processed_count + 1 ELSE processed_count
    /\ failed_count' = IF out.result # "ok" /\ variant = "agent"
                       THEN failed_count + 1 ELSE failed_count
    /\ lpc' = AfterItem(out.result, idx, Len(batch))
    /\ IF lpc' = "item"
       THEN /\ idx' = idx + 1
            /\ pc' = "classify"
            /\ attempted' = Append(attempted, batch[idx + 1])
       ELSE /\ idx' = 0
            /\ pc' = "idle"
            /\ attempted' = attempted
    /\ cls' = NoClassification
    /\ out' = NoOutcome
    /\ calls' = <<>>
    /\ UNCHANGED <<iteration, batch, labels, downloads>>
    /\ UNCHANGED <<poll_result, sleeps, auth_failed_at, interrupted_at>>
    /\ UNCHANGED <<backendVars, fixedVars>>

\* a slip that sleeps after the last iteration too
SleepsAfterEvery(it) == TRUE

\* `if iteration < MAX_ITERATIONS: time.sleep(POLL_INTERVAL)`
SleepsAfter(it) == it < MAX_ITERATIONS

\* the end of an iteration: time.sleep between two iterations, none after the
\* last, then the loop condition
Sleep ==
    /\ lpc = "sleep"
    /\ sleeps' = IF SleepsAfter(iteration) THEN sleeps + 1 ELSE sleeps
    /\ lpc' = IF iteration < MAX_ITERATIONS THEN "poll" ELSE "stopped"
    /\ UNCHANGED <<iteration, batch, idx, labels, downloads, processed_count, failed_count>>
    /\ UNCHANGED <<attempted, poll_result, auth_failed_at, interrupted_at>>
    /\ UNCHANGED <<itemVars, backendVars, fixedVars>>

Next ==
    \/ Startup
    \/ Poll
    \/ Classify
    \/ Download
    \/ Candidate
    \/ Upload
    \/ Position
    \/ Draft
    \/ Notify
    \/ Label
    \/ EndItem
    \/ Sleep

Spec == Init /\ [][Next]_vars

----------------------------------------------------------------------------
(* KeyboardInterrupt. It is not an Exception: the `except Exception` clauses *)
(* of the tools and of the per-message try blocks let it through.           *)

\* agent.py: `except KeyboardInterrupt: break` around the body of an iteration;
\* agent_strands.py: run_agent_once returns {"status": "interrupted"}, which
\* run_agent_continuous does not look at
AfterInterrupt(v) == IF v = "agent" THEN "stopped" ELSE "sleep"

Interrupted == interrupted_at # 0

\* during the health check or the fetch of an iteration
InterruptPoll ==
    /\ lpc = "poll"
    /\ iteration < MAX_ITERATIONS
    /\ ~Interrupted
    /\ interrupted_at' = iteration + 1
    /\ iteration' = iteration + 1
    /\ poll_result' = "interrupted"
    /\ lpc' = AfterInterrupt(variant)
    /\ batch' = <<>>
    /\ idx' = 0
    /\ attempted' = <<>>
    /\ processed_count' = 0
    /\ failed_count' = 0
    /\ auth_failed_at' = 0
    /\ UNCHANGED <<labels, downloads, sleeps>>
    /\ UNCHANGED <<itemVars, backendVars, fixedVars>>

\* while a message is in the pipeline: the run of that message ends where it is
InterruptItem ==
    /\ lpc = "item"
    /\ ~Interrupted
    /\ interrupted_at' = iteration
    /\ lpc' = AfterInterrupt(variant)
    /\ UNCHANGED <<iteration, batch, idx, labels, downloads, processed_count, failed_count>>
    /\ UNCHANGED <<attempted, poll_result, sleeps, auth_failed_at>>
    /\ UNCHANGED <<itemVars, backendVars, fixedVars>>

\* during time.sleep, which no try block encloses: the interrupt leaves
\* agent_main_loop / run_agent_continuous as an unhandled exception
InterruptSleep ==
    /\ lpc = "sleep"
    /\ SleepsAfter(iteration)
    /\ ~Interrupted
    /\ interrupted_at' = iteration
    /\ sleeps' = sleeps + 1
    /\ lpc' = "crashed"
    /\ UNCHANGED <<iteration, batch, idx, labels, downloads, processed_count, failed_count>>
    /\ UNCHANGED <<attempted, poll_result, auth_failed_at>>
    /\ UNCHANGED <<itemVars, backendVars, fixedVars>>

NextInterrupt ==
    \/ Next
    \/ InterruptPoll
    \/ InterruptItem
    \/ InterruptSleep

SpecInterrupt == Init /\ [][NextInterrupt]_vars


----------------------------------------------------------------------------
(* The classifier on its own: every generated message, each entry point    *)

PipelineIdle ==
    /\ emails = [i \in MsgIds |-> PipelineEmail(i, "other", 0)]
    /\ labels = {}
    /\ candidates = <<>>
    /\ documents = <<>>
    /\ positions = <<>>
    /\ notifications = <<>>
    /\ downloads = {}
    /\ lpc = "off"
    /\ iteration = 0
    /\ batch = <<>>
    /\ idx = 0
    /\ processed_count = 0
    /\ failed_count = 0
    /\ pc = "idle"
    /\ cls = NoClassification
    /\ out = NoOutcome
    /\ calls = <<>>
    /\ attempted = <<>>
    /\ poll_result = "none"
    /\ sleeps = 0
    /\ auth_failed_at = 0
    /\ interrupted_at = 0

PipelineOff == variant = "agent" /\ PipelineIdle

InitClassify ==
    /\ PipelineOff
    /\ IdleFetch
    /\ IdleFill
    /\ IdleAuth
    /\ c_email \in ClassifierInputs
    /\ c_result = NoClassification

\* classification.classify_email(email, llm_classify_fn), as agent.py calls it
\* (llm = FALSE) and with a model function supplied
CallClassifyEmail ==
    /\ c_result = NoClassification
    /\ \E llm \in BOOLEAN :
        c_result' = IF ClassifyRaises(c_email)
                    THEN [fn |-> "classify_email", llm |-> llm, raised |-> TRUE]
                    ELSE [fn |-> "classify_email", llm |-> llm, raised |-> FALSE,
                          value |-> classify_email(c_email, llm),
                          fallback |-> UsesLlmFallback(c_email, llm),
                          model_calls |-> model_calls(c_email, llm)]
    /\ UNCHANGED <<c_email, pipeVars, fetchVars, fillVars, authVars>>

\* agent_strands.classify_email_type(email_data)
CallClassifyEmailType ==
    /\ c_result = NoClassification
    /\ c_result' = [fn |-> "classify_email_type", llm |-> FALSE, raised |-> FALSE,
                    value |-> classify_email_type(c_email),
                    fallback |-> FALSE, model_calls |-> 0]
    /\ UNCHANGED <<c_email, pipeVars, fetchVars, fillVars, authVars>>

NextClassify ==
    \/ CallClassifyEmail
    \/ CallClassifyEmailType

SpecClassify == InitClassify /\ [][NextClassify]_vars

----------------------------------------------------------------------------
(* The truncation of a poll on its own: every configured maximum against    *)
(* every length of the mailbox's answer                                     *)

ListedOfLength(n) == [i \in 1..n |-> i]

InitFetch ==
    /\ variant \in {"agent", "strands"}
    /\ PipelineIdle
    /\ IdleClassifier
    /\ IdleFill
    /\ IdleAuth
    /\ f_max \in 1..MaxConfigured
    /\ f_listed \in {ListedOfLength(n) : n \in 0..MaxListed}
    /\ f_batch = NoBatch

\* the slice between the fetch and the loop over the messages
CallPollBatch ==
    /\ f_batch = NoBatch
    /\ f_batch' = poll_batch(variant, f_max, f_listed)
    /\ UNCHANGED <<f_max, f_listed, pipeVars, clsVars, fillVars, authVars>>

NextFetch == CallPollBatch

SpecFetch == InitFetch /\ [][NextFetch]_vars

----------------------------------------------------------------------------
(* The template server: fill_template of mcp-server/src/tools and the tool  *)
(* of the same name in mcp-server/src/server.py. The metadata and template  *)
(* files are not part of the sources: a template is what its metadata file  *)
(* says (missing, invalid, or the required and optional field names), and   *)
(* the renderer either returns a document or raises.                        *)

FieldCatalog ==
    <<"candidate_name", "position_title", "recruiter_name", "company_name", "start_date">>

Fields == {FieldCatalog[i] : i \in 1..MaxFields}

\* a key no template knows
UnknownField == "unknown_field"

\* the lists without repetition of the members of S
Perms(S) ==
    {f \in [1..Cardinality(S) -> S] : \A i, j \in 1..Cardinality(S) : f[i] = f[j] => i = j}

\* the members of S in the order of the catalog
CatalogOrder(S) == SelectSeq(FieldCatalog, LAMBDA f : f \in S)

\* a metadata file: missing, not loadable, or its "required" list (in any
\* order) and its "optional" list
MetadataFiles ==
    {[state |-> "missing", required |-> <<>>, optional |-> <<>>],
     [state |-> "invalid", required |-> <<>>, optional |-> <<>>]}
    \cup {[state |-> "valid", required |-> r, optional |-> CatalogOrder(O)] :
            r \in UNION {Perms(R) : R \in SUBSET Fields}, O \in SUBSET Fields}

\* field_values: each key absent, given a text, or given the empty string
FieldValues == UNION {[P -> {"v", ""}] : P \in SUBSET (Fields \cup {UnknownField})}

FillRequests ==
    {[template_id |-> "t", metadata |-> m, field_values |-> fv, renders_ok |-> r] :
        m \in {x \in MetadataFiles : Range(x.required) \cap Range(x.optional) = {}},
        fv \in FieldValues, r \in BOOLEAN}

\* a slip that reports a missing file as unreadable
load_metadata_raises_value_error(m) ==
    IF m.state \in {"missing", "invalid"} THEN "ValueError" ELSE "none"

\* template_loader.load_metadata: what it raises, or "none"
load_metadata_raises(m) ==
    IF m.state = "missing" THEN "FileNotFoundError"
    ELSE IF m.state = "invalid" THEN "ValueError"
    ELSE "none"

\* a slip that lets every payload through
validate_nothing(m, data) == [ok |-> TRUE, missing_fields |-> <<>>, error |-> "#None"]

\* a slip that takes an empty string for a missing field
validate_nonempty(m, data) ==
    IF load_metadata_raises(m) # "none"
    THEN [ok |-> FALSE, missing_fields |-> <<>>, error |-> "Failed to load template metadata"]
    ELSE LET missing_fields ==
                 SelectSeq(m.required,
                           LAMBDA field : field \notin DOMAIN data \/ data[field] = "")
         IN  IF missing_fields # <<>>
             THEN [ok |-> FALSE, missing_fields |-> missing_fields,
                   error |-> "Missing required fields"]
             ELSE [ok |-> TRUE, missing_fields |-> <<>>, error |-> "#None"]

\* template_loader.validate_template_data
validate_template_data(m, data) ==
    IF load_metadata_raises(m) # "none"
    THEN [ok |-> FALSE, missing_fields |-> <<>>, error |-> "Failed to load template metadata"]
    ELSE LET missing_fields == SelectSeq(m.required, LAMBDA field : field \notin DOMAIN data)
         IN  IF missing_fields # <<>>
             THEN [ok |-> FALSE, missing_fields |-> missing_fields,
                   error |-> "Missing required fields"]
             ELSE [ok |-> TRUE, missing_fields |-> <<>>, error |-> "#None"]

\* a slip that hands back the whole payload
used_fields_unfiltered(m, field_values) == field_values

\* {k: v for k, v in field_values.items() if k in all_fields}
used_fields(m, field_values) ==
    LET all_fields == m.required \o m.optional
    IN  [k \in {f \in DOMAIN field_values : f \in Range(all_fields)} |-> field_values[k]]

\* the response of fill_template and the number of render_template calls made
fill_template(req) ==
    LET m == req.metadata
        raised == load_metadata_raises(m)
        validation == validate_template_data(m, req.field_values)
    IN  IF raised = "FileNotFoundError"
        THEN [renders |-> 0,
              value |-> [ok |-> FALSE, error_code |-> "TEMPLATE_NOT_FOUND",
                         message |-> "Template does not exist"]]
        ELSE IF raised = "ValueError"
        THEN [renders |-> 0,
              value |-> [ok |-> FALSE, error_code |-> "INVALID_METADATA",
                         message |-> "Template metadata is invalid"]]
        ELSE IF ~validation.ok
        THEN [renders |-> 0,
              value |-> [ok |-> FALSE, error_code |-> "MISSING_FIELDS",
                         missing_fields |-> validation.missing_fields,
                         message |-> validation.error]]
        ELSE IF req.renders_ok
        THEN [renders |-> 1,
              value |-> [ok |-> TRUE, template_id |-> req.template_id,
                         rendered_document |-> <<"rendered", DOMAIN req.field_values>>,
                         used_fields |-> used_fields(m, req.field_values)]]
        ELSE [renders |-> 1,
              value |-> [ok |-> FALSE, error_code |-> "RENDERING_ERROR",
                         message |-> "Failed to render template"]]

\* server.py: the tool repeats the body of tools/fill_template.py
server_fill_template(req) == fill_template(req)

\* metadata["types"].get(field_name, "string") for each name of the list
FieldEntries(names) == [i \in 1..Len(names) |-> [name |-> names[i], type |-> "string"]]

\* template_loader.get_template_schema: what it raises, and the schema when it
\* raises nothing
load_schema(req) ==
    LET m == req.metadata
        raised == load_metadata_raises(m)
    IN  IF raised # "none"
        THEN [raised |-> raised, value |-> [id |-> req.template_id]]
        ELSE [raised |-> "none",
              value |-> [id |-> req.template_id,
                         required_fields |-> FieldEntries(m.required),
                         optional_fields |-> FieldEntries(m.optional)]]

\* tools/get_template_schema.get_template_schema
get_template_schema(req) ==
    LET schema == load_schema(req)
    IN  IF schema.raised = "FileNotFoundError"
        THEN [ok |-> FALSE, error_code |-> "TEMPLATE_NOT_FOUND",
              message |-> "Template does not exist"]
        ELSE IF schema.raised = "ValueError"
        THEN [ok |-> FALSE, error_code |-> "INVALID_METADATA",
              message |-> "Template metadata is invalid"]
        ELSE [ok |-> TRUE, id |-> schema.value.id,
              required_fields |-> schema.value.required_fields,
              optional_fields |-> schema.value.optional_fields]

\* server.py: the tool repeats the body of tools/get_template_schema.py
server_get_template_schema(req) == get_template_schema(req)

InitFill ==
    /\ PipelineOff
    /\ IdleClassifier
    /\ IdleFetch
    /\ IdleAuth
    /\ t_request \in FillRequests
    /\ t_response = NoResponse

Respond(fn, r) ==
    [done |-> TRUE, fn |-> fn, raised |-> "none", value |-> r.value, renders |-> r.renders]

\* tools/fill_template.fill_template(template_id, field_values)
CallFillTemplate ==
    /\ ~t_response.done
    /\ t_response' = Respond("fill_template", fill_template(t_request))
    /\ UNCHANGED <<t_request, pipeVars, clsVars, fetchVars, authVars>>

\* server.fill_template(template_id, field_values)
CallServerFillTemplate ==
    /\ ~t_response.done
    /\ t_response' = Respond("server.fill_template", server_fill_template(t_request))
    /\ UNCHANGED <<t_request, pipeVars, clsVars, fetchVars, authVars>>

\* tools/get_template_schema.get_template_schema(template_id)
CallGetTemplateSchema ==
    /\ ~t_response.done
    /\ t_response' = [done |-> TRUE, fn |-> "get_template_schema", raised |-> "none",
                      value |-> get_template_schema(t_request), renders |-> 0]
    /\ UNCHANGED <<t_request, pipeVars, clsVars, fetchVars, authVars>>

\* server.get_template_schema(template_id)
CallServerGetTemplateSchema ==
    /\ ~t_response.done
    /\ t_response' = [done |-> TRUE, fn |-> "server.get_template_schema",
                      raised |-> "none",
                      value |-> server_get_template_schema(t_request), renders |-> 0]
    /\ UNCHANGED <<t_request, pipeVars, clsVars, fetchVars, authVars>>

\* template_loader.get_template_schema(template_id)
CallLoadSchema ==
    /\ ~t_response.done
    /\ t_response' = [done |-> TRUE, fn |-> "load_schema",
                      raised |-> load_schema(t_request).raised,
                      value |-> load_schema(t_request).value, renders |-> 0]
    /\ UNCHANGED <<t_request, pipeVars, clsVars, fetchVars, authVars>>

NextFill ==
    \/ CallFillTemplate
    \/ CallServerFillTemplate
    \/ CallGetTemplateSchema
    \/ CallServerGetTemplateSchema
    \/ CallLoadSchema

SpecFill == InitFill /\ [][NextFill]_vars

----------------------------------------------------------------------------
(* The polling loop over a mailbox larger than the per-poll maximum, with   *)
(* collaborators that always answer: a run fails only where the code itself *)
(* makes it fail. One step is one whole run of a message.                   *)

\* messages without ingest: the run writes a notification and the label
HealthyShapes == { <<"other", 0>>, <<"pos", 0>>, <<"cand", 0>> }

HealthyMailboxes ==
    [1..MaxMailbox -> { PipelineEmail(0, sh[1], sh[2]) : sh \in HealthyShapes }]

InitHealthy ==
    /\ variant \in {"agent", "strands"}
    /\ \E m \in HealthyMailboxes : emails = [i \in 1..MaxMailbox |-> [m[i] EXCEPT !["id"] = i]]
    /\ labels = {}
    /\ candidates = <<>>
    /\ documents = <<>>
    /\ positions = <<>>
    /\ notifications = <<>>
    /\ downloads = {}
    /\ lpc = "poll"
    /\ iteration = 0
    /\ batch = <<>>
    /\ idx = 0
    /\ processed_count = 0
    /\ failed_count = 0
    /\ pc = "idle"
    /\ cls = NoClassification
    /\ out = NoOutcome
    /\ calls = <<>>
    /\ attempted = <<>>
    /\ poll_result = "none"
    /\ sleeps = 0
    /\ auth_failed_at = 0
    /\ interrupted_at = 0
    /\ IdleClassifier
    /\ IdleFetch
    /\ IdleFill
    /\ IdleAuth

\* the classification the orchestrator works with
Classified(v, email) ==
    IF v = "agent" THEN classify_email(email, FALSE) ELSE classify_email_type(email)

\* where a step leads when its collaborator answers (create_position has no
\* answer but the AttributeError; the draft is never reported as created)
HealthyStep(v, step) ==
    CASE step = "download" -> AfterDownload(v, TRUE)
      [] step = "candidate" -> AfterCandidate(v, TRUE)
      [] step = "upload" -> AfterUpload(v, TRUE)
      [] step = "position" -> AfterPosition(TRUE \in CreatePositionOutcomes)
      [] step = "draft" -> AfterDraft(DraftReplySuccess(gmail_create_draft))
      [] step = "notify" -> AfterNotify(TRUE)
      [] step = "label" -> AfterLabel(TRUE)

\* the steps a run goes through from `step` on, the outcome last
RECURSIVE HealthyRun(_, _)
HealthyRun(v, step) ==
    IF step \in {"abort", "ok"} THEN <<step>>
    ELSE <<step>> \o HealthyRun(v, HealthyStep(v, step))

\* the whole run of one message
RunOf(v, email) ==
    HealthyRun(v, AfterClassify(v, Classified(v, email).type, email["attachments"]))

RunResult(v, email) == LET run == RunOf(v, email) IN run[Len(run)]

healthyFrame == <<variant, emails, candidates, documents, positions, downloads, pc, cls,
                  out, calls, attempted, poll_result, sleeps, auth_failed_at,
                  interrupted_at>>

\* one iteration begins: fetch and truncate
HealthyPoll ==
    /\ lpc = "poll"
    /\ iteration < MaxPolls
    /\ iteration' = iteration + 1
    /\ processed_count' = 0
    /\ failed_count' = 0
    /\ \E honoured \in BOOLEAN :
        /\ batch' = PollBatch(variant, labels, TRUE, honoured)
        /\ lpc' = AfterPoll(batch')
        /\ idx' = IF batch' = <<>> THEN 0 ELSE 1
    /\ UNCHANGED <<labels, notifications>>
    /\ UNCHANGED <<healthyFrame, clsVars, fetchVars, fillVars, authVars>>

\* the run of the current message of the batch, then the next message
HealthyItem ==
    /\ lpc = "item"
    /\ LET email == emails[batch[idx]]
           run == RunOf(variant, email)
           result == run[Len(run)]
       IN  /\ notifications' =
                 IF "label" \in Range(run)
                 THEN Append(notifications,
                             NotificationMetadata(variant, email,
                                                  Classified(variant, email), NoOutcome))
                 ELSE notifications
           /\ labels' = IF "label" \in Range(run) THEN add_label(labels, batch[idx], TRUE)
                        ELSE labels
           /\ processed_count' = IF result = "ok" THEN processed_count + 1
                                 ELSE processed_count
           /\ failed_count' = IF result # "ok" /\ variant = "agent"
                              THEN failed_count + 1 ELSE failed_count
           /\ lpc' = AfterItem(result, idx, Len(batch))
           /\ idx' = IF lpc' = "item" THEN idx + 1 ELSE 0
    /\ UNCHANGED <<iteration, batch>>
    /\ UNCHANGED <<healthyFrame, clsVars, fetchVars, fillVars, authVars>>

\* the end of an iteration
HealthySleep ==
    /\ lpc = "sleep"
    /\ lpc' = IF iteration < MaxPolls THEN "poll" ELSE "stopped"
    /\ UNCHANGED <<iteration, batch, idx, labels, notifications, processed_count,
                   failed_count>>
    /\ UNCHANGED <<healthyFrame, clsVars, fetchVars, fillVars, authVars>>

NextHealthy ==
    \/ HealthyPoll
    \/ HealthyItem
    \/ HealthySleep

SpecHealthy == InitHealthy /\ [][NextHealthy]_vars

----------------------------------------------------------------------------
(* The backend client on its own: BackendAPI._get_headers and authenticate *)
(* under a clock. A token is the number of the login that issued it.       *)

\* timedelta(hours=23)
TOKEN_LIFETIME == 23

InitAuth ==
    /\ PipelineOff
    /\ IdleClassifier
    /\ IdleFetch
    /\ IdleFill
    /\ IdleAuth

\* a slip that logs in before every request
needs_login_always(tok, expiry, t) == TRUE

\* `not self.token or (self.token_expiry and datetime.now() >= self.token_expiry)`
needs_login(tok, expiry, t) == tok = NoToken \/ (expiry # NoExpiry /\ t >= expiry)

\* time passes between two requests
Tick ==
    /\ now < MaxClock
    /\ now' = now + 1
    /\ UNCHANGED <<token, token_expiry, logins, a_request>>
    /\ UNCHANGED <<pipeVars, clsVars, fetchVars, fillVars>>

\* one request that goes through _get_headers: authenticate() when the token
\* is missing or stale (a failed login raises BackendAPIError before the
\* request is built), then the request with the Bearer token
AuthenticatedRequest ==
    /\ logins < MaxLogins
    /\ \E login_ok \in BOOLEAN :
        LET login == needs_login(token, token_expiry, now)
            raised == login /\ ~login_ok
            issued == logins + 1
        IN  /\ token' = IF login /\ login_ok THEN issued ELSE token
            /\ token_expiry' = IF login /\ login_ok THEN now + TOKEN_LIFETIME
                                ELSE token_expiry
            /\ logins' = IF login THEN issued ELSE logins
            /\ a_request' = [done |-> TRUE, login |-> login, raised |-> raised,
                              sent |-> ~raised, bearer |-> IF raised THEN NoToken ELSE token',
                              token_before |-> token, expiry_before |-> token_expiry,
                              at |-> now]
    /\ UNCHANGED now
    /\ UNCHANGED <<pipeVars, clsVars, fetchVars, fillVars>>

NextAuth ==
    \/ Tick
    \/ AuthenticatedRequest

SpecAuth == InitAuth /\ [][NextAuth]_vars


----------------------------------------------------------------------------
(* Properties *)

CallIdx(op) == {i \in 1..Len(calls) : calls[i].op = op}
Called(op) == CallIdx(op) # {}
Succeeded(op) == \E i \in CallIdx(op) : calls[i].ok
Failed(op) == \E i \in CallIdx(op) : ~calls[i].ok

IngestOps == {"download_attachment", "create_or_get_candidate", "upload_document",
              "create_position"}
DraftOps == {"render_template", "create_draft"}

\* C1: the add-label call of a message is issued only after the
\* create-notification call of the same message succeeded in the same run, and
\* every labelled message has a notification in the backend.
C1_LabelOnlyAfterNotification ==
    /\ \A i \in CallIdx("add_label") :
          \E j \in CallIdx("create_notification") : j < i /\ calls[j].ok
    /\ \A m \in labels :
          \E n \in 1..Len(notifications) : notifications[n].emailId = m

C1_Witness ==
    /\ InItem("done")
    /\ Succeeded("add_label")
    /\ CurId \in labels

\* the ingest calls the type of a message requires
RequiredIngest(email_type, attachments) ==
    IF email_type = "CANDIDATE_APPLICATION" /\ attachments # <<>>
    THEN {"download_attachment", "create_or_get_candidate", "upload_document"}
    ELSE IF email_type = "POSITION_ANNOUNCEMENT"
    THEN {"create_position"}
    ELSE {}

RequiredStepsSucceeded ==
    /\ \A op \in RequiredIngest(cls.type, Cur["attachments"]) :
          Succeeded(op) /\ ~Failed(op)
    /\ Succeeded("create_notification")

\* C2: a message carries the marker only if the run that labelled it completed
\* all of its required steps (the ingest its type requires, then the
\* notification): no message has the marker while a required step of that run
\* failed or was left out.
C2_MarkerOnlyAfterRequiredSteps ==
    (InItem("done") /\ CurId \in labels) => RequiredStepsSucceeded

\* C3: a run that fails at notification creation or at a required ingest step
\* leaves the message without the processed label, and the next fetch with the
\* same filter returns it.
C3_FailedRunLeavesMessageForRetry ==
    (InItem("done") /\ \E op \in IngestOps \cup {"create_notification"} : Failed(op))
        => /\ CurId \notin labels
           /\ CurId \in Range(fetch_emails(labels, NumMsgs, TRUE, TRUE))

\* C4: one run downloads at most once and uploads at most once, both times the
\* attachment at index 0; no attachment at an index >= 1 is ever downloaded or
\* uploaded, however many the message has.
C4_OnlyFirstAttachment ==
    /\ Cardinality(CallIdx("download_attachment")) <= 1
    /\ Cardinality(CallIdx("upload_document")) <= 1
    /\ \A i \in CallIdx("download_attachment") \cup CallIdx("upload_document") :
          calls[i].att = 0
    /\ \A d \in downloads : d[2] = 0
    /\ \A n \in 1..Len(documents) : documents[n].att = 0

C4_Witness ==
    /\ InItem("done")
    /\ Len(Cur["attachments"]) >= 3
    /\ Succeeded("download_attachment")
    /\ Succeeded("upload_document")

\* the stage of the pipeline a call belongs to
StageOf(op) ==
    CASE op \in IngestOps -> 2
      [] op \in DraftOps -> 3
      [] op = "create_notification" -> 4
      [] op = "add_label" -> 5

\* the failures that end the item (agent_strands.py goes on after an empty
\* download)
AbortsItem(v, c) ==
    /\ ~c.ok
    /\ \/ c.op \in {"create_or_get_candidate", "upload_document", "create_position",
                    "create_notification"}
       \/ c.op = "download_attachment" /\ v = "agent"

\* C5: the calls of one message in one run follow the order classify, ingest,
\* draft, notify, commit, and a step that aborts the item is the last call of
\* the run.
C5_StepsInOrder ==
    /\ calls # <<>> => cls # NoClassification
    /\ \A i, j \in 1..Len(calls) :
          i < j => /\ StageOf(calls[i].op) <= StageOf(calls[j].op)
                   /\ StageOf(calls[i].op) >= 4 => StageOf(calls[i].op) < StageOf(calls[j].op)
                   /\ ~AbortsItem(variant, calls[i])
    /\ (calls # <<>> /\ AbortsItem(variant, calls[Len(calls)]))
          => pc = "done" /\ out.result = "abort"

C5_Witness ==
    /\ InItem("done")
    /\ variant = "strands"
    /\ Called("create_or_get_candidate")
    /\ Called("download_attachment")
    /\ Called("render_template")
    /\ Failed("create_notification")
    /\ out.result = "abort"

\* C6: for a CandidateApplication with an attachment, a failed ingest sub-step
\* (download, candidate, upload) aborts the item: no notification is created
\* and no label is added in that run.
C6_IngestFailureAborts ==
    (/\ lpc = "item"
     /\ cls.type = "CANDIDATE_APPLICATION"
     /\ Cur["attachments"] # <<>>
     /\ \E op \in {"download_attachment", "create_or_get_candidate", "upload_document"} :
           Failed(op))
        => ~Called("create_notification") /\ ~Called("add_label")

DraftFailed == Failed("render_template") \/ Failed("create_draft")

\* C7: in agent_strands.py a failed template rendering or draft creation never
\* aborts the item: the run still calls create-notification and, when that
\* succeeds, add-label.
C7_DraftFailureIsNotFatal ==
    (variant = "strands" /\ InItem("done") /\ DraftFailed)
        => /\ Called("create_notification")
           /\ Succeeded("create_notification") => Called("add_label")
           /\ out.result = "abort" => Failed("create_notification")

C7_Witness ==
    /\ variant = "strands"
    /\ InItem("done")
    /\ Failed("render_template")
    /\ Succeeded("create_notification")
    /\ Succeeded("add_label")
    /\ CurId \in labels


Triple(value) == <<value["type"], value["method"][1], value["confidence"]>>

ExpectedType(to) ==
    IF Contains(Lower(to), "+candidates@") THEN "CANDIDATE_APPLICATION"
    ELSE IF Contains(Lower(to), "+positions@") THEN "POSITION_ANNOUNCEMENT"
    ELSE "OTHER"

\* C8: a recipient containing the candidate routing token classifies as
\* (CandidateApplication, deterministic, high), one containing the position
\* routing token as (PositionAnnouncement, deterministic, high), any other
\* recipient, with no model configured, as (Other, deterministic, ...).
C8_RoutingTokenDecides ==
    (/\ c_result # NoClassification
     /\ c_result.fn = "classify_email_type"
     /\ c_email["to"] # PyNone)
        => IF ExpectedType(c_email["to"]) = "OTHER"
           THEN /\ c_result.value["type"] \in {"OTHER", "CANDIDATE_APPLICATION",
                                                "POSITION_ANNOUNCEMENT"}
                /\ c_result.value["method"][1] = "deterministic"
           ELSE Triple(c_result.value)
                    = <<ExpectedType(c_email["to"]), "deterministic", "high">>

InfoKeys == {"sender", "subject", "to", "received_at", "attachment_count", "has_body"}

C11_BatchWithinCap ==
    f_batch # NoBatch
        => /\ Len(f_batch) <= f_max
           /\ variant = "strands" => Len(f_batch) <= 10
           /\ Len(f_batch) <= Len(f_listed)
           /\ f_batch = SubSeq(f_listed, 1, Len(f_batch))

C11_Witness ==
    /\ f_batch # NoBatch
    /\ variant = "strands"
    /\ f_max > 10
    /\ Len(f_listed) > f_max
    /\ Len(f_batch) = 10

\* C12: with no interrupt the loop starts at most MAX_ITERATIONS polls, sleeps
\* exactly once between two consecutive polls and not after the last one: it
\* stops after MAX_ITERATIONS polls and MAX_ITERATIONS - 1 sleeps.
C12_StopsAfterMaxIterations ==
    /\ iteration <= MAX_ITERATIONS
    /\ lpc = "poll" => sleeps = iteration /\ iteration < MAX_ITERATIONS
    /\ lpc \in {"item", "sleep"} => sleeps = iteration - 1
    /\ lpc = "stopped"
          => \/ iteration = MAX_ITERATIONS /\ sleeps = MAX_ITERATIONS - 1
             \/ variant = "agent" /\ iteration = 0 /\ sleeps = 0

C12_Witness ==
    /\ lpc = "stopped"
    /\ iteration = MAX_ITERATIONS
    /\ sleeps = MAX_ITERATIONS - 1

\* the ingest side effects of the run of the current message
HasIngestEffects == out.candidate_id # NoId \/ out.document_id # NoId

\* C13: an interrupt never leaves a message half-processed: once the loop has
\* left the message there is no run with ingest side effects that has neither
\* an abort decision nor a notification attempt.
C13_InterruptLeavesNoHalfProcessedItem ==
    (Interrupted /\ lpc # "item")
        => ~(/\ HasIngestEffects
             /\ out.result = "running"
             /\ ~Called("create_notification"))

\* C14: after an interrupt no further poll is started (the iteration counter
\* stays at the iteration the interrupt came in and no message is in the
\* pipeline) and the interrupt does not leave the loop as an unhandled error.
C14_InterruptShutsDownCleanly ==
    Interrupted
        => /\ lpc # "crashed"
           /\ lpc # "item"
           /\ iteration = interrupted_at

PollFailures == {"unhealthy", "fetch_error"}

\* C15: a poll that fails its health check or its fetch hands nothing to the
\* pipeline and changes neither the mailbox nor the backend; the loop then
\* sleeps and, while iterations remain, stands at the next poll.
C15_FailedPollEndsOnlyItsIteration ==
    [][/\ (lpc = "poll" /\ iteration' = iteration + 1 /\ poll_result' \in PollFailures)
            => /\ lpc' = "sleep"
               /\ batch' = <<>>
               /\ attempted' = <<>>
               /\ processed_count' = 0
               /\ UNCHANGED <<labels, downloads, candidates, documents, positions,
                              notifications>>
       /\ (lpc = "sleep" /\ lpc' # "sleep" /\ poll_result \in PollFailures
           /\ iteration < MAX_ITERATIONS)
            => /\ lpc' = "poll"
               /\ sleeps' = sleeps + 1
               /\ UNCHANGED iteration
      ]_vars

C15_Witness ==
    /\ lpc = "poll"
    /\ iteration = 1
    /\ iteration < MAX_ITERATIONS
    /\ sleeps = 1
    /\ poll_result \in PollFailures

\* C16: the messages of the batch are attempted one by one in fetch order,
\* each exactly once, whatever the earlier ones returned: when the poll is
\* over the attempted messages are the whole batch.
C16_EveryBatchMessageAttemptedOnce ==
    /\ lpc = "item" => attempted = SubSeq(batch, 1, idx)
    /\ lpc \in {"sleep", "poll", "stopped"} => attempted = batch
    /\ \A i, j \in 1..Len(attempted) : attempted[i] = attempted[j] => i = j

C16_Witness ==
    /\ variant = "agent"
    /\ InItem("done")
    /\ idx = 2
    /\ failed_count = 1
    /\ attempted = batch

\* C17: once a login has failed inside an iteration, no further message of
\* the batch is attempted in that iteration.
C17_AuthFailureAbortsIteration ==
    (lpc = "item" /\ auth_failed_at # 0) => idx = auth_failed_at

SenderOf(m) == parse_email_address(emails[m]["from"])

\* C18: create_or_get_candidate never stores a second record for an address:
\* at most one candidate per normalized sender address exists, the id a run
\* gets is the id of that record, and every document hangs on the one record
\* of its sender, whichever run uploaded it.
C18_OneCandidatePerAddress ==
    /\ \A i, j \in 1..Len(candidates) :
          candidates[i].email = candidates[j].email => i = j
    /\ (lpc = "item" /\ out.candidate_id # NoId)
          => \E i \in 1..Len(candidates) :
                /\ candidates[i].id = out.candidate_id
                /\ candidates[i].email = SenderOf(CurId)
    /\ \A d \in 1..Len(documents) :
          LET sender == SenderOf(documents[d].email_id)
          IN  \E i \in 1..Len(candidates) :
                 /\ candidates[i].id = documents[d].candidate_id
                 /\ candidates[i].email = sender

C18_Witness ==
    /\ Len(candidates) = 1
    /\ \E d, e \in 1..Len(documents) :
          /\ documents[d].email_id # documents[e].email_id
          /\ emails[documents[d].email_id]["from"] # emails[documents[e].email_id]["from"]
    /\ \E d, e \in 1..Len(documents) :
          d # e /\ documents[d].email_id = documents[e].email_id

\* the first MAX_EMAILS_PER_POLL messages without the processed label
DueMessages ==
    {m \in MsgIds : /\ m \notin labels
                    /\ Cardinality({k \in MsgIds : k \notin labels /\ k < m})
                          < MAX_EMAILS_PER_POLL}

\* C19: a failed add-label leaves the message without the label, and every
\* poll whose fetch works hands the unlabelled messages (up to the cap) to the
\* pipeline again, whatever notifications and documents they already have.
C19_UnlabelledMessageIsRetried ==
    [][/\ (InItem("label") /\ pc' = "done" /\ Failed("add_label")')
            => CurId \notin labels'
       /\ (lpc = "poll" /\ iteration' = iteration + 1 /\ poll_result' = "fetched")
            => DueMessages \subseteq Range(batch')
      ]_vars

C19_Witness ==
    \E m \in MsgIds :
        /\ m \notin labels
        /\ \E i, j \in 1..Len(notifications) :
              i # j /\ notifications[i].emailId = m /\ notifications[j].emailId = m
        /\ \E d, e \in 1..Len(documents) :
              d # e /\ documents[d].email_id = m /\ documents[e].email_id = m

\* the notification the current run created
CurNotification == notifications[out.notification_id]

Carries(n, key, id) == id # NoId => (key \in DOMAIN n /\ n[key] = id)

\* C20: the notification of a run carries every id an earlier step of the run
\* produced: candidateId, documentId, positionId, draftId.
C20_NotificationCarriesProducedIds ==
    (lpc = "item" /\ out.notification_id # NoId)
        => /\ Carries(CurNotification, "candidateId", out.candidate_id)
           /\ Carries(CurNotification, "documentId", out.document_id)
           /\ Carries(CurNotification, "positionId", out.position_id)
           /\ Carries(CurNotification, "draftId", out.draft_id)

\* C21: a message classified PositionAnnouncement is labelled only by a run
\* that created a position record for it before Notify and Commit.
C21_PositionLabelledOnlyAfterPositionCreated ==
    (lpc = "item" /\ cls.type = "POSITION_ANNOUNCEMENT" /\ Called("add_label"))
        => /\ Succeeded("create_position")
           /\ out.position_id # NoId
           /\ \E p \in 1..Len(positions) : positions[p].email_id = CurId

\* C22: the set of labelled messages only grows, and the only step that
\* changes it is the add-label of the message in the pipeline, which adds that
\* one message.
C22_LabelsOnlyGrow ==
    [][/\ labels \subseteq labels'
       /\ labels' # labels => (InItem("label") /\ labels' = labels \cup {CurId})
      ]_vars

C22_Witness ==
    /\ lpc = "item"
    /\ iteration = 2
    /\ Succeeded("add_label")
    /\ Cardinality(labels) = 2

\* the calls of fill_template, in tools/ and in server.py
FillFns == {"fill_template", "server.fill_template"}

MissingRequired(req) ==
    {f \in Range(req.metadata.required) : f \notin DOMAIN req.field_values}

\* C23: when a required field of an existing template is absent from
\* field_values, fill_template answers ok = false with MISSING_FIELDS and the
\* absent fields, never calls the renderer and returns no rendered_document.
C23_MissingFieldsBeforeRendering ==
    (/\ t_response.done
     /\ t_response.fn \in FillFns
     /\ t_request.metadata.state = "valid"
     /\ MissingRequired(t_request) # {})
        => /\ t_response.value["ok"] = FALSE
           /\ t_response.value["error_code"] = "MISSING_FIELDS"
           /\ Range(t_response.value["missing_fields"]) = MissingRequired(t_request)
           /\ t_response.renders = 0
           /\ "rendered_document" \notin DOMAIN t_response.value

C23_Witness ==
    /\ t_response.done
    /\ t_response.fn = "fill_template"
    /\ t_request.metadata.state = "valid"
    /\ t_request.renders_ok
    /\ MissingRequired(t_request) # {}
    /\ MissingRequired(t_request) # Range(t_request.metadata.required)
    /\ t_response.value["error_code"] = "MISSING_FIELDS"

\* C24: every failure response of fill_template carries a message and an
\* error_code among MISSING_FIELDS, TEMPLATE_NOT_FOUND and RENDERING_ERROR.
C24_ErrorCodesAreTheThree ==
    (t_response.done /\ t_response.fn \in FillFns /\ ~t_response.value["ok"])
        => /\ "message" \in DOMAIN t_response.value
           /\ "error_code" \in DOMAIN t_response.value
           /\ t_response.value["error_code"]
                 \in {"MISSING_FIELDS", "TEMPLATE_NOT_FOUND", "RENDERING_ERROR"}

\* the messages of the batch that carry the label when the poll is over
LabelledInPoll == {m \in Range(batch) : m \in labels}

\* C25: when a poll is over its counts partition the batch: succeeded plus
\* failed is the number of messages handed to the pipeline, and succeeded is
\* the number of those messages the label was applied to.
C25_CountsPartitionTheBatch ==
    (lpc = "sleep" /\ poll_result = "fetched")
        => /\ processed_count = Cardinality(LabelledInPoll)
           /\ variant = "agent" => processed_count + failed_count = Len(batch)

\* C26: a run reports success (process_single_email returns True,
\* agent_strands.py counts the message as processed) only if the label is on
\* the message.
C26_SuccessMeansLabelled ==
    (InItem("done") /\ out.result = "ok") => CurId \in labels

CollaboratorOps ==
    {"download_attachment", "create_or_get_candidate", "upload_document",
     "create_position", "create_draft", "create_notification", "add_label"}

\* C27: in one run of one message every collaborator call is made at most
\* once, whether it succeeds or fails.
C27_NoCallRepeatedInARun ==
    \A op \in CollaboratorOps : Cardinality(CallIdx(op)) <= 1

\* the other messages of the mailbox never reach the candidate step
OnlyIngestingMessage(m) ==
    \A k \in MsgIds \ {m} :
        ExpectedType(emails[k]["to"]) # "CANDIDATE_APPLICATION"
        \/ emails[k]["attachments"] = <<>>

C27_Witness ==
    /\ variant = "agent"
    /\ iteration = 2
    /\ InItem("candidate")
    /\ OnlyIngestingMessage(CurId)
    /\ Len(candidates) = 1
    /\ documents = <<>>
    /\ Cardinality(CallIdx("download_attachment")) = 1

C29_DownloadThenCandidateThenUpload ==
    /\ \A i \in CallIdx("create_or_get_candidate") :
          \E j \in CallIdx("download_attachment") : j < i /\ calls[j].ok
    /\ \A i \in CallIdx("upload_document") :
          /\ \E j \in CallIdx("download_attachment") : j < i /\ calls[j].ok
          /\ \E j \in CallIdx("create_or_get_candidate") : j < i /\ calls[j].ok

\* the calls that go to a collaborator answered as the collaborator should
CollaboratorsHealthy ==
    \A i \in 1..Len(calls) :
        calls[i].op \notin {"create_position", "render_template", "create_draft"}
            => calls[i].ok

\* C30: in agent_strands.py the run of a PositionAnnouncement whose
\* collaborators all answer successfully ends with a position created, a
\* notification that carries its id and the label on the message.
C30_HealthyPositionRunCommits ==
    (/\ variant = "strands"
     /\ InItem("done")
     /\ cls.type = "POSITION_ANNOUNCEMENT"
     /\ CollaboratorsHealthy)
        => /\ out.position_id # NoId
           /\ out.notification_id # NoId
           /\ CurId \in labels

\* C31: in agent_strands.py, when the template is rendered and the mailbox
\* answers the draft call with a created draft, create_draft_reply reports
\* success with the draft id, and the notification of the run records that id.
C31_CreatedDraftIsReported ==
    (/\ variant = "strands"
     /\ lpc = "item"
     /\ Succeeded("render_template")
     /\ Called("create_draft")
     /\ gmail_create_draft.status = "created")
        => /\ Succeeded("create_draft")
           /\ out.draft_id # NoId
           /\ out.notification_id # NoId
                 => ("draftId" \in DOMAIN CurNotification
                     /\ CurNotification.draftId = out.draft_id)

\* C32: the run of a message classified Other makes no download, candidate,
\* upload, position or draft call and changes nothing but the notifications
\* (one at most) and, after a successful notification, the label of the
\* message.
C32_OtherRunOnlyNotifiesAndLabels ==
    [][(lpc' = "item" /\ cls'.type = "OTHER")
          => /\ UNCHANGED <<candidates, documents, positions, downloads>>
             /\ \A i \in 1..Len(calls') :
                   calls'[i].op \in {"create_notification", "add_label"}
             /\ Cardinality({i \in 1..Len(calls') :
                                calls'[i].op = "create_notification"}) <= 1
             /\ Len(notifications') <= Len(notifications) + 1
             /\ out'.candidate_id = NoId /\ out'.document_id = NoId
             /\ out'.position_id = NoId /\ out'.draft_id = NoId
             /\ labels' # labels
                   => /\ labels' = labels \cup {batch[idx]}
                      /\ Succeeded("create_notification")
             /\ (pc' = "done" /\ Succeeded("create_notification")')
                   => Called("add_label")'
      ]_vars

C32_Witness ==
    /\ variant = "strands"
    /\ InItem("done")
    /\ cls.type = "OTHER"
    /\ Len(calls) = 2
    /\ Succeeded("create_notification")
    /\ Succeeded("add_label")
    /\ CurId \in labels

EmailTypes == {"CANDIDATE_APPLICATION", "POSITION_ANNOUNCEMENT", "OTHER"}

\* C33: classify_email turns to the model fallback only when the
\* deterministic pass returned Other and a model function was supplied; a
\* routing-token match is returned as it is with no call of the model; with
\* no model supplied the deterministic result is returned.
C33_FallbackOnlyAfterOtherWithModel ==
    (c_result # NoClassification /\ c_result.fn = "classify_email" /\ ~c_result.raised)
        => LET det == classify_email_deterministic(c_email)
           IN  /\ c_result.fallback => (det[1] = "OTHER" /\ c_result.llm)
               /\ c_result.value.method[1] = "llm" => c_result.fallback
               /\ det[1] # "OTHER"
                     => /\ c_result.value.type = det[1]
                        /\ c_result.value.method = det[2]
                        /\ c_result.model_calls = 0
               /\ ~c_result.llm
                     => /\ c_result.value.type = det[1]
                        /\ c_result.value.method = det[2]
                        /\ c_result.model_calls = 0
               /\ c_result.value.type \in EmailTypes

C33_Witness ==
    /\ c_result # NoClassification
    /\ c_result.fn = "classify_email"
    /\ ~c_result.raised
    /\ c_result.llm
    /\ c_result.fallback
    /\ c_result.value.method[1] = "llm"

\* the address of a recipient header as it is written (no case folding)
RecipientAddress(to) ==
    IF "<" \in Range(to) /\ ">" \in Range(to)
    THEN Strip(Slice(to, Index(to, "<") + 1, Index(to, ">")))
    ELSE Strip(to)

SameRecipientUpToCase(a, b) ==
    /\ ~ParseRaises(a["to"])
    /\ ~ParseRaises(b["to"])
    /\ Lower(RecipientAddress(a["to"])) = Lower(RecipientAddress(b["to"]))

\* C34: with no model supplied, every message whose recipient address equals
\* that of the classified message up to letter case gets the same type,
\* whatever its sender, subject, body and attachments.
C34_TypeDependsOnRecipientOnly ==
    (c_result # NoClassification /\ ~c_result.llm /\ ~c_result.raised)
        => \A other \in ClassifierInputs :
              SameRecipientUpToCase(c_email, other)
                  => classify_email(other, FALSE).type = c_result.value.type

C34_Witness ==
    /\ c_result # NoClassification
    /\ ~c_result.llm
    /\ ~c_result.raised
    /\ c_result.value.type = "CANDIDATE_APPLICATION"
    /\ c_email["subject"] = <<"New Position:", " ", "Backend Dev">>
    /\ \E other \in ClassifierInputs :
          /\ SameRecipientUpToCase(c_email, other)
          /\ other["to"] # c_email["to"]
          /\ other["subject"] # c_email["subject"]
          /\ other["from"] # c_email["from"]
          /\ other["attachments"] # c_email["attachments"]

\* C35: an authenticated request logs in exactly when the token is missing or
\* the stored expiry has passed, and otherwise sends the stored token; a
\* request that is sent carries a non-empty token; a failed login sends no
\* request and leaves the stored token and expiry as they were.
C35_LazyAuthentication ==
    a_request.done
        => /\ a_request.login
                 <=> (\/ a_request.token_before = NoToken
                      \/ /\ a_request.expiry_before # NoExpiry
                         /\ a_request.at >= a_request.expiry_before)
           /\ ~a_request.login
                 => (a_request.sent /\ a_request.bearer = a_request.token_before)
           /\ a_request.sent => a_request.bearer # NoToken
           /\ a_request.raised
                 => /\ ~a_request.sent
                    /\ token = a_request.token_before
                    /\ token_expiry = a_request.expiry_before

C35_Witness ==
    /\ a_request.done
    /\ a_request.login
    /\ a_request.raised
    /\ a_request.token_before # NoToken
    /\ a_request.at >= a_request.expiry_before
    /\ token = a_request.token_before

\* the required fields absent from the payload, in the order of the metadata
AbsentRequired(req) ==
    SelectSeq(req.metadata.required, LAMBDA f : f \notin DOMAIN req.field_values)

\* C36: on a MISSING_FIELDS response missing_fields is the list of the
\* required fields whose key is absent from field_values, in the order of the
\* metadata; a required field given the empty string is not in it, and no
\* optional field is.
C36_MissingFieldsAreTheAbsentRequired ==
    (/\ t_response.done
     /\ t_response.fn \in FillFns
     /\ "error_code" \in DOMAIN t_response.value
     /\ t_response.value["error_code"] = "MISSING_FIELDS")
        => /\ t_response.value["missing_fields"] = AbsentRequired(t_request)
           /\ \A f \in Range(t_response.value["missing_fields"]) :
                 /\ f \notin DOMAIN t_request.field_values
                 /\ f \notin Range(t_request.metadata.optional)

C36_Witness ==
    /\ t_response.done
    /\ t_response.fn = "fill_template"
    /\ "error_code" \in DOMAIN t_response.value
    /\ t_response.value["error_code"] = "MISSING_FIELDS"
    /\ t_request.metadata.required = <<"recruiter_name", "candidate_name", "position_title">>
    /\ t_response.value["missing_fields"] = <<"recruiter_name", "position_title">>
    /\ "candidate_name" \in DOMAIN t_request.field_values
    /\ t_request.field_values["candidate_name"] = ""

DeclaredFields(req) == Range(req.metadata.required) \cup Range(req.metadata.optional)

\* C37: on a successful fill_template used_fields is field_values restricted
\* to the declared fields (required and optional): every required field is in
\* it, no undeclared key is, and the values are those given.
C37_UsedFieldsAreTheDeclaredOnes ==
    (t_response.done /\ t_response.fn \in FillFns /\ t_response.value["ok"])
        => LET used == t_response.value["used_fields"]
           IN  /\ DOMAIN used = DOMAIN t_request.field_values \cap DeclaredFields(t_request)
               /\ \A k \in DOMAIN used : used[k] = t_request.field_values[k]
               /\ Range(t_request.metadata.required) \subseteq DOMAIN used
               /\ DOMAIN used \subseteq DeclaredFields(t_request)

C37_Witness ==
    /\ t_response.done
    /\ t_response.fn = "fill_template"
    /\ t_response.value["ok"]
    /\ UnknownField \in DOMAIN t_request.field_values
    /\ t_request.metadata.required # <<>>
    /\ t_request.metadata.optional # <<>>
    /\ \E f \in Range(t_request.metadata.optional) : f \in DOMAIN t_request.field_values
    /\ \E f \in Range(t_request.metadata.optional) : f \notin DOMAIN t_request.field_values

\* C38: for a template id without metadata file fill_template answers
\* ok = false with TEMPLATE_NOT_FOUND whatever field_values is, the
\* get_template_schema tool answers the same, and the get_template_schema of
\* the loader raises FileNotFoundError.
C38_MissingTemplateIsNotFound ==
    (t_response.done /\ t_request.metadata.state = "missing")
        => IF t_response.fn = "load_schema"
           THEN t_response.raised = "FileNotFoundError"
           ELSE /\ t_response.raised = "none"
                /\ t_response.value["ok"] = FALSE
                /\ t_response.value["error_code"] = "TEMPLATE_NOT_FOUND"
                /\ "missing_fields" \notin DOMAIN t_response.value
                /\ t_response.renders = 0

C38_Witness ==
    /\ t_response.done
    /\ t_request.metadata.state = "missing"
    /\ t_response.fn = "fill_template"
    /\ t_request.field_values = << >>
    /\ t_response.value["error_code"] = "TEMPLATE_NOT_FOUND"

\* the messages whose run fails whenever it is made
FailsInEveryRun == {m \in DOMAIN emails : RunResult(variant, emails[m]) # "ok"}

\* C39: when the mailbox holds more eligible messages than the per-poll
\* maximum and some fail in every run, every message whose steps succeed is
\* labelled once the loop has made as many polls as the mailbox has messages.
C39_FailingMessagesDoNotStarveOthers ==
    (/\ lpc = "stopped"
     /\ iteration >= Cardinality(DOMAIN emails)
     /\ Cardinality(DOMAIN emails) > MAX_EMAILS_PER_POLL
     /\ FailsInEveryRun # {})
        => \A m \in DOMAIN emails \ FailsInEveryRun : m \in labels

====
